---- MODULE Spec2Model ----
(***************************************************************************)
(* A model of the filter/node layer of vapoursynth4-rs:                    *)
(*   - node.rs: FilterMode and its conversion, the Filter trait, the       *)
(*     callbacks FilterExtern::filter_get_frame / filter_free,             *)
(*     NodeRef::new_video / new_audio / get_frame, Clone and Drop for      *)
(*     NodeRef;                                                            *)
(*   - core.rs: Core::create_video_filter / create_audio_filter, and       *)
(*     CoreBuilder with Core::new_with / set_* / get_info.                 *)
(* The VapourSynth engine behind the API table is the environment: its     *)
(* scheduling follows the documentation of FilterMode in node.rs.          *)
(***************************************************************************)
EXTENDS Integers, Sequences, FiniteSets, TLC

\* ------------------------------------------------------------- bounds
\* Output frame indices are 0..MaxFrame.
MaxFrame == 1
\* Engine worker threads are 1..NumThreads.
NumThreads == 2
\* Upstream frames one output-frame request may ask for.
MaxUpstream == 1
\* how many times the NodeRef of a node is cloned
MaxClones == 3
\* how many calls are made on a CoreBuilder before build()
MaxCalls == 3

\* ---------------------------------------------------- program constants
\* i32::MAX, the largest dependency count c_int can carry.
I32Max == 2147483647
\* The error buffer Node::get_frame hands to the engine.
BufSize == 1024

Frames == 0..MaxFrame
Threads == 1..NumThreads

VARIABLES
    \* --- activation protocol
    filterMode,   \* F::FILTER_MODE of the registered filter type
    engineMode,   \* the ffi::VSFilterMode the engine was given at registration
    filterKind,   \* "General" | "AlwaysErr": the user's get_frame under test
    errText,      \* the error an AlwaysErr filter returns
    req,          \* per output frame: the engine's request and its FrameContext
    thr,          \* per worker thread: idle, or inside filter_get_frame
    last,         \* per output frame: the last completed activation
    frame,        \* per output frame: reference accounting of the produced frame
    result,       \* per output frame: what Node::get_frame returned
    crashed,      \* the process left defined behaviour / aborted
    nodeRc,       \* the engine's reference count of the node
    inst,         \* the boxed Filter instance behind instance_data
    \* --- registration calls
    reg,          \* the registration call made for a Filter instance
    \* --- handles
    handles,      \* the NodeRef handles made for the node, and the live ones
    \* --- core construction
    builder,      \* the CoreBuilder, with the calls made on it
    core          \* the engine's core made by CoreBuilder::build

vars == <<filterMode, engineMode, filterKind, errText, req, thr, last, frame,
          result, crashed, nodeRc, inst, reg, handles, builder, core>>

\* =====================================================================
\* Byte strings
\* =====================================================================

\* "boom" and "e": the errors a filter's get_frame returns (NUL-free CStr).
ErrTexts == { <<98, 111, 111, 109>>, <<101>> }
\* "p": the message of a panic inside get_frame.
PanicTexts == { <<112>> }
\* What a reinterpreted non-&str payload reads as.
GarbageText == <<63>>
\* The engine's own message for a failed upstream request.
UpstreamErrText == <<117>>

Range(s) == { s[i] : i \in 1..Len(s) }

Take(s, k) == IF Len(s) <= k THEN s ELSE SubSeq(s, 1, k)

\* s occurs in t as a contiguous run.
Contains(t, s) ==
    \E i \in 0..(Len(t) - Len(s)) : SubSeq(t, i + 1, i + Len(s)) = s

\* CStr::from_ptr: the bytes before the first NUL.
RECURSIVE CStrFromPtr(_)
CStrFromPtr(buf) ==
    IF buf = <<>> \/ Head(buf) = 0 THEN <<>>
    ELSE <<Head(buf)>> \o CStrFromPtr(Tail(buf))

\* CStr::to_string_lossy on single-byte input: ASCII is kept, any other byte
\* is no valid UTF-8 on its own and becomes U+FFFD.
ToStringLossy(bytes) ==
    [i \in 1..Len(bytes) |-> IF bytes[i] < 128 THEN bytes[i] ELSE 65533]

\* =====================================================================
\* Filter modes (node.rs)
\* =====================================================================

FilterModes == {"Parallel", "ParallelRequests", "Unordered", "FrameState"}

\* A conversion that hands Unordered to the engine as fmParallel.
FilterModeIntoUnorderedAsParallel(mode) ==
    CASE mode = "Parallel" -> "fmParallel"
      [] mode = "ParallelRequests" -> "fmParallelRequests"
      [] mode = "Unordered" -> "fmParallel"
      [] mode = "FrameState" -> "fmFrameState"

\* A conversion that hands ParallelRequests to the engine as fmParallel.
FilterModeIntoRequestsAsParallel(mode) ==
    CASE mode = "Parallel" -> "fmParallel"
      [] mode = "ParallelRequests" -> "fmParallel"
      [] mode = "Unordered" -> "fmUnordered"
      [] mode = "FrameState" -> "fmFrameState"

\* impl From<FilterMode> for ffi::VSFilterMode
FilterModeInto(mode) ==
    CASE mode = "Parallel" -> "fmParallel"
      [] mode = "ParallelRequests" -> "fmParallelRequests"
      [] mode = "Unordered" -> "fmUnordered"
      [] mode = "FrameState" -> "fmFrameState"

\* =====================================================================
\* Values of the activation protocol
\* =====================================================================

NullPtr == 0
\* The pointer of the frame produced for output index n.
FramePtr(n) == n + 1

NoErr == [set |-> FALSE, msg |-> <<>>]
NoReq == [st |-> "None", pending |-> 0, issued |-> 0, upFailed |-> FALSE,
          err |-> NoErr, ptr |-> NullPtr, started |-> FALSE]
Idle == [pc |-> "idle", n |-> 0, reason |-> "none", nreq |-> 0]
NoAct == [reason |-> "none", tag |-> "none", kind |-> "", msg |-> <<>>,
          ret |-> NullPtr, crash |-> FALSE]
NoFrame == [rc |-> 0, layerRel |-> 0, engineRel |-> 0]
NoResult == [tag |-> "none", msg |-> <<>>, frame |-> NullPtr]

\* Result<Option<Frame>, Self::Error> of Filter::get_frame, or its panic.
RetSome == [tag |-> "Some", kind |-> "", msg |-> <<>>]
RetNone == [tag |-> "None", kind |-> "", msg |-> <<>>]
RetErr(e) == [tag |-> "Err", kind |-> "", msg |-> e]
\* kind is the type of the panic payload: "str" (panic!("literal")) or
\* "String" (panic!("{}", x)), which stands for every payload that is no
\* &str (panic_any(value) takes the same branch of the code).
RetPanic(k, m) == [tag |-> "Panic", kind |-> k, msg |-> m]
PayloadKinds == {"str", "String"}

\* What the user's get_frame may answer. A General filter follows the
\* protocol of the Filter trait except that it may fail, panic or answer
\* Ok(None) on any reason; it hands out a frame only when it has asked for
\* nothing in this activation and was not told of an upstream error.
FilterResults(kind, reason, nreq) ==
    IF kind = "AlwaysErr" THEN { RetErr(errText) }
    ELSE { RetNone, RetErr(errText) }
         \cup { RetPanic(k, m) : k \in PayloadKinds, m \in PanicTexts }
         \cup (IF reason # "Error" /\ nreq = 0 THEN { RetSome } ELSE {})

\* =====================================================================
\* FilterExtern::filter_get_frame (node.rs)
\* =====================================================================

\* FrameContext::set_filter_error: the error is recorded on the context.
SetFilterError(err, e) == [set |-> TRUE, msg |-> e]

\* ToCString::into_cstring_lossy on a NUL-free &str: its bytes.
IntoCStringLossy(m) == m

\* The frame handle dropped on return: Drop for Frame releases the layer's
\* reference although the pointer goes to the engine.
DropFrame(f) == [f EXCEPT !.rc = @ - 1, !.layerRel = @ + 1]

\* `let frame = ManuallyDrop::new(frame)`: Drop for Frame does not run, the
\* layer releases nothing.
ManuallyDropFrame(f) == f

\* The frame the user's get_frame built: one reference, held by the handle
\* it returned.
NewFrame == [rc |-> 1, layerRel |-> 0, engineRel |-> 0]

\* `p.downcast::<&str>()`: Ok only for a payload of type &str.
DowncastStr(r) == r.kind = "str"

\* filter_get_frame without the `Ok(Err(e))` arm: the error falls through to
\* `_ => {}`.
FilterGetFrameErrSwallowed(r, n, err) ==
    CASE r.tag = "Some" ->
           { [ret |-> n + 1, err |-> err, crash |-> FALSE] }
      [] r.tag = "Panic" /\ r.kind = "str" ->
           { [ret |-> NullPtr, err |-> [set |-> TRUE, msg |-> r.msg],
              crash |-> FALSE] }
      [] r.tag = "Panic" /\ r.kind # "str" ->
           { [ret |-> NullPtr, err |-> err, crash |-> TRUE] }
      [] OTHER ->
           { [ret |-> NullPtr, err |-> err, crash |-> FALSE] }

\* The `match std::panic::catch_unwind(...)` of filter_get_frame and the
\* trailing `null()`: the set of outcomes [ret, err, crash] for the answer r
\* of the user's get_frame on output index n with context error err.
\* `unwrap_unchecked()` on a failed downcast is undefined behaviour: the
\* build may abort the process or read the payload as a &str it is not.
FilterGetFrame(r, n, err) ==
    CASE r.tag = "Some" ->
           { [ret |-> FramePtr(n), err |-> err, crash |-> FALSE] }
      [] r.tag = "Err" ->
           { [ret |-> NullPtr, err |-> SetFilterError(err, r.msg),
              crash |-> FALSE] }
      [] r.tag = "Panic" ->
           IF DowncastStr(r)
           THEN { [ret |-> NullPtr,
                   err |-> SetFilterError(err, IntoCStringLossy(r.msg)),
                   crash |-> FALSE] }
           ELSE { [ret |-> NullPtr, err |-> err, crash |-> TRUE],
                  [ret |-> NullPtr, err |-> SetFilterError(err, GarbageText),
                   crash |-> FALSE] }
      [] OTHER ->
           { [ret |-> NullPtr, err |-> err, crash |-> FALSE] }

\* =====================================================================
\* The engine (environment), as documented on FilterMode
\* =====================================================================

ReasonOf(st) ==
    CASE st = "Initial" -> "Initial"
      [] st = "Ready" -> "AllFramesReady"
      [] st = "UpErr" -> "Error"

\* A request that had an activation and has no result yet.
InFlight(q) == q.started /\ q.st \notin {"Done", "Error"}

\* May a worker enter get_frame for output index n with this reason?
ModeAllows(em, reason, n) ==
    CASE em = "fmParallel" -> TRUE
      [] em = "fmParallelRequests" ->
           reason = "AllFramesReady" =>
               \A u \in Threads :
                   ~(thr[u].pc = "inside" /\ thr[u].reason = "AllFramesReady")
      [] em = "fmUnordered" -> \A u \in Threads : thr[u].pc = "idle"
      [] em = "fmFrameState" ->
           /\ \A u \in Threads : thr[u].pc = "idle"
           /\ \A m \in Frames \ {n} : ~InFlight(req[m])

\* What the engine makes of the callback's return for request q.
EngineOnReturn(q, reason, ret, err) ==
    LET q1 == [q EXCEPT !.err = err] IN
    CASE ret # NullPtr -> [q1 EXCEPT !.st = "Done", !.ptr = ret]
      [] ret = NullPtr /\ (err.set \/ reason = "Error") ->
           [q1 EXCEPT !.st = "Error"]
      [] ret = NullPtr /\ ~err.set /\ reason = "Initial" ->
           [q1 EXCEPT !.st = IF q.pending > 0 THEN "Waiting" ELSE "Initial"]
      [] OTHER -> [q1 EXCEPT !.st = "NoResult"]

\* The message of a failed request.
ErrorMessage(q) == IF q.err.set THEN q.err.msg ELSE UpstreamErrText

\* api().getFrame: the engine fills the caller's buffer of bufSize bytes with
\* the NUL-terminated message, cut to fit.
EngineGetFrameBuf(q, bufSize) ==
    IF q.st = "Error" THEN Take(ErrorMessage(q), bufSize - 1) \o <<0>>
    ELSE <<0>>

\* =====================================================================
\* NodeRef::get_frame (node.rs)
\* =====================================================================

NodeGetFrameResult(ptr, buf) ==
    IF ptr = NullPtr
    THEN [tag |-> "Err", msg |-> ToStringLossy(CStrFromPtr(buf)),
          frame |-> NullPtr]
    ELSE [tag |-> "Ok", msg |-> <<>>, frame |-> ptr]

\* =====================================================================
\* FilterExtern::filter_free (node.rs)
\* =====================================================================

\* Box::from_raw(instance_data) and `filter.free(core)`: the free hook takes
\* the filter by value, which is dropped when the hook returns.
FilterFree(i) ==
    [i EXCEPT !.owner = "gone", !.drops = @ + 1, !.freeHook = @ + 1]

\* =====================================================================
\* Registration: Core::create_video_filter / create_audio_filter (core.rs),
\* NodeRef::new_video / new_audio (node.rs)
\* =====================================================================

\* "f" and "f\0g": a filter name without and with an embedded NUL.
Names == { <<102>>, <<102, 0, 103>> }
\* A usize length is written [hi, lo] for hi * 2^31 + lo with lo in
\* 0..I32Max, so that lengths beyond i32::MAX can be told apart.
USize(hi, lo) == [hi |-> hi, lo |-> lo]
\* dependencies.len(): 0, 1, i32::MAX, i32::MAX + 1, and 2^32 + 1, whose low
\* 32 bits read 1.
DepsLens == { USize(0, 0), USize(0, 1), USize(0, I32Max), USize(1, 0),
              USize(2, 1) }
\* The engine's own error texts: "x", and one byte that is no UTF-8.
EngineErrTexts == { <<120>>, <<255>> }
\* b"Invalid name"
InvalidNameText == <<73, 110, 118, 97, 108, 105, 100, 32, 110, 97, 109, 101>>
\* b"dependencies len is larger than i32::MAX"
TooManyDepsText ==
    <<100, 101, 112, 101, 110, 100, 101, 110, 99, 105, 101, 115, 32, 108,
      101, 110, 32, 105, 115, 32, 108, 97, 114, 103, 101, 114, 32, 116, 104,
      97, 110, 32, 105, 51, 50, 58, 58, 77, 65, 88>>

\* The boxed filter before any call: owned by the caller.
CallerInst == [owner |-> "caller", drops |-> 0, freeHook |-> 0]
RegInit == [path |-> "none", name |-> <<>>, depsLen |-> USize(0, 0),
            ret |-> [tag |-> "none", type |-> "", variant |-> "",
                     msg |-> <<>>],
            calls |-> 0, numDeps |-> 0, mode |-> "", out |-> NoErr]

\* Return values of the registration calls.
OkUnit == [tag |-> "Ok", type |-> "", variant |-> "", msg |-> <<>>]
ErrFilterError(v, m) ==
    [tag |-> "Err", type |-> "FilterError", variant |-> v, msg |-> m]
ErrCString(m) == [tag |-> "Err", type |-> "CString", variant |-> "", msg |-> m]
SomeNode == [tag |-> "Some", type |-> "", variant |-> "", msg |-> <<>>]
NoneNode == [tag |-> "None", type |-> "", variant |-> "", msg |-> <<>>]
Panicked == [tag |-> "Panic", type |-> "", variant |-> "", msg |-> <<>>]

\* A CString built by cutting the name at its first NUL.
CStringNewTruncating(bytes) == [ok |-> TRUE, c |-> CStrFromPtr(bytes) \o <<0>>]

\* CString::new: fails on an interior NUL, else appends the terminator.
CStringNew(bytes) ==
    IF 0 \in Range(bytes) THEN [ok |-> FALSE, c |-> <<>>]
    ELSE [ok |-> TRUE, c |-> bytes \o <<0>>]

\* usize -> c_int by `as`: the low 32 bits, read as a signed number.
AsCInt(len) ==
    [ok |-> TRUE,
     v |-> IF len.hi % 2 = 0 THEN len.lo ELSE (len.lo - I32Max) - 1]

\* usize -> c_int by try_into(): fails above i32::MAX.
TryIntoCInt(len) ==
    IF len.hi = 0 THEN [ok |-> TRUE, v |-> len.lo]
    ELSE [ok |-> FALSE, v |-> 0]

\* String::from_utf8_lossy on single-byte input.
FromUtf8Lossy(bytes) ==
    [i \in 1..Len(bytes) |-> IF bytes[i] < 128 THEN bytes[i] ELSE 65533]

\* The Box<F> still owned by the call goes out of scope (early return or
\* unwinding): the filter is dropped, its free hook is not run.
DropBox(i) == [i EXCEPT !.owner = "gone", !.drops = @ + 1]

\* The engine's answers to createVideoFilter(2) / createAudioFilter(2). On a
\* failure nothing in this repository tells whether the engine calls the
\* free callback it was given: both are modelled.
EngineAnswers ==
    { [kind |-> "ok", msg |-> <<>>] }
    \cup { [kind |-> k, msg |-> m] :
               k \in {"fail", "fail_free"}, m \in EngineErrTexts }

\* The engine's side of a registration: it was handed Box::into_raw(filter).
EngineCreate(eng, i) ==
    CASE eng.kind = "ok" ->
           [node |-> TRUE, err |-> NoErr, inst |-> [i EXCEPT !.owner = "engine"]]
      [] eng.kind = "fail" ->
           [node |-> FALSE, err |-> [set |-> TRUE, msg |-> eng.msg],
            inst |-> [i EXCEPT !.owner = "leaked"]]
      [] eng.kind = "fail_free" ->
           [node |-> FALSE, err |-> [set |-> TRUE, msg |-> eng.msg],
            inst |-> FilterFree(i)]

\* A call that ends before the engine is reached.
Rejected(ret, i) ==
    [ret |-> ret, calls |-> 0, numDeps |-> 0, mode |-> "", node |-> FALSE,
     inst |-> DropBox(i), out |-> NoErr]

\* create_video_filter without the look at out.get_error() after the engine
\* call.
CreateVideoFilterIgnoringError(name, len, eng, mode, i) ==
    LET cname == CStringNew(name)
        cnt == TryIntoCInt(len)
        e == EngineCreate(eng, i)
    IN  IF ~cname.ok THEN Rejected(ErrFilterError("InvalidName", <<>>), i)
        ELSE IF ~cnt.ok
        THEN Rejected(ErrFilterError("TooMuchDependency", <<>>), i)
        ELSE [ret |-> OkUnit,
              calls |-> 1, numDeps |-> cnt.v, mode |-> FilterModeInto(mode),
              node |-> e.node, inst |-> e.inst, out |-> e.err]

\* Core::create_video_filter. `out` starts without an error entry; e.err is
\* what out.get_error() reads after the engine call.
CreateVideoFilter(name, len, eng, mode, i) ==
    LET cname == CStringNew(name)
        cnt == TryIntoCInt(len)
        e == EngineCreate(eng, i)
    IN  IF ~cname.ok THEN Rejected(ErrFilterError("InvalidName", <<>>), i)
        ELSE IF ~cnt.ok
        THEN Rejected(ErrFilterError("TooMuchDependency", <<>>), i)
        ELSE [ret |-> IF e.err.set
                      THEN ErrFilterError("Internal", FromUtf8Lossy(e.err.msg))
                      ELSE OkUnit,
              calls |-> 1, numDeps |-> cnt.v, mode |-> FilterModeInto(mode),
              node |-> e.node, inst |-> e.inst, out |-> e.err]

\* Core::create_audio_filter
CreateAudioFilter(name, len, eng, mode, i) ==
    LET cname == CStringNew(name)
        cnt == TryIntoCInt(len)
        e == EngineCreate(eng, i)
    IN  IF ~cname.ok THEN Rejected(ErrCString(InvalidNameText), i)
        ELSE IF ~cnt.ok THEN Rejected(ErrCString(TooManyDepsText), i)
        ELSE [ret |-> IF e.err.set THEN ErrCString(e.err.msg) ELSE OkUnit,
              calls |-> 1, numDeps |-> cnt.v, mode |-> FilterModeInto(mode),
              node |-> e.node, inst |-> e.inst, out |-> e.err]

\* NodeRef::new_video and NodeRef::new_audio, which differ in the engine
\* function and the info type only: `.ok()?` on the name, `.unwrap()` on the
\* dependency count, None for a null node. These calls take no out map.
NewNode(name, len, eng, mode, i) ==
    LET cname == CStringNew(name)
        cnt == TryIntoCInt(len)
        e == EngineCreate(eng, i)
    IN  IF ~cname.ok THEN Rejected(NoneNode, i)
        ELSE IF ~cnt.ok THEN Rejected(Panicked, i)
        ELSE [ret |-> IF e.node THEN SomeNode ELSE NoneNode,
              calls |-> 1, numDeps |-> cnt.v, mode |-> FilterModeInto(mode),
              node |-> e.node, inst |-> e.inst, out |-> NoErr]

\* The call record kept for a finished registration call.
CallRecord(path, name, len, c) ==
    [path |-> path, name |-> name, depsLen |-> len, ret |-> c.ret,
     calls |-> c.calls, numDeps |-> c.numDeps, mode |-> c.mode,
     out |-> c.out]

\* =====================================================================
\* NodeRef handles: from_ptr, Clone, Drop (node.rs)
\* =====================================================================

HandleIds == 1..(MaxClones + 1)
\* No NodeRef has been made for the node.
NoHandles == [live |-> {}, made |-> 0]

\* NodeRef::from_ptr: one more handle to the node, taking over one reference.
FromPtr(hs) == [live |-> hs.live \cup {hs.made + 1}, made |-> hs.made + 1]

\* The engine's addNodeRef: one more reference to the node.
AddNodeRef(rc) == rc + 1

\* A clone that copies the pointer of the handle and takes no reference.
CloneByCopy(rc, hs) == [rc |-> rc, handles |-> FromPtr(hs)]

\* Clone for NodeRef: from_ptr(addNodeRef(self)).
CloneNodeRef(rc, hs) == [rc |-> AddNodeRef(rc), handles |-> FromPtr(hs)]

\* =====================================================================
\* Core and CoreBuilder (core.rs)
\* =====================================================================

\* ffi::VSCoreCreationFlags
ccfEnableGraphInspection == 1
ccfDisableAutoLoading == 2
ccfDisableLibraryUnloading == 4

\* The arguments given to max_cache_size and thread_count.
CacheSizes == {1024, 2048}
ThreadCounts == {4, 1}

None == [some |-> FALSE, v |-> 0]
Some(v) == [some |-> TRUE, v |-> v]

\* CoreBuilder::new(): Self::default(). `log` keeps the calls made on the
\* builder, in order.
NewBuilder ==
    [flags |-> 0, api |-> None, max_cache_size |-> None,
     thread_count |-> None, log |-> <<>>]

\* No core has been created. A created core keeps the flags it was created
\* with, what getCoreInfo reports (None: the engine's default), and how
\* often setMaxCacheSize and setThreadCount were called on it.
NoCore ==
    [built |-> FALSE, flags |-> 0, maxFramebufferSize |-> None,
     numThreads |-> None, setMaxCacheSize |-> 0, setThreadCount |-> 0]

\* `flags = bit`: the flag replaces what was selected before.
FlagsAssign(a, b) == b

\* `flags |= bit` on non-negative i32, bit by bit.
RECURSIVE BitOr(_, _)
BitOr(a, b) ==
    IF a = 0 THEN b
    ELSE IF b = 0 THEN a
    ELSE (IF a % 2 = 1 \/ b % 2 = 1 THEN 1 ELSE 0)
         + 2 * BitOr(a \div 2, b \div 2)

EnableGraphInspection(b) ==
    [b EXCEPT !.flags = BitOr(@, ccfEnableGraphInspection)]
DisableAutoLoading(b) ==
    [b EXCEPT !.flags = BitOr(@, ccfDisableAutoLoading)]
DisableLibraryUnloading(b) ==
    [b EXCEPT !.flags = BitOr(@, ccfDisableLibraryUnloading)]
MaxCacheSize(b, size) == [b EXCEPT !.max_cache_size = Some(size)]
ThreadCount(b, count) == [b EXCEPT !.thread_count = Some(count)]
\* CoreBuilder::api: the one ApiRef there is.
SetApi(b) == [b EXCEPT !.api = Some(1)]

\* Core::new_with: createCore(flags).
NewWith(flags) == [NoCore EXCEPT !.built = TRUE, !.flags = flags]
\* Core::set_max_cache_size: setMaxCacheSize(size, core).
SetMaxCacheSize(c, size) ==
    [c EXCEPT !.maxFramebufferSize = Some(size), !.setMaxCacheSize = @ + 1]
\* Core::set_thread_count: setThreadCount(count, core).
SetThreadCount(c, count) ==
    [c EXCEPT !.numThreads = Some(count), !.setThreadCount = @ + 1]
\* Core::get_info: getCoreInfo.
GetInfo(c) ==
    [maxFramebufferSize |-> c.maxFramebufferSize, numThreads |-> c.numThreads]

\* CoreBuilder::build
Build(b) ==
    LET c0 == NewWith(b.flags)
        c1 == IF b.max_cache_size.some
              THEN SetMaxCacheSize(c0, b.max_cache_size.v) ELSE c0
    IN  IF b.thread_count.some THEN SetThreadCount(c1, b.thread_count.v)
        ELSE c1

\* =====================================================================
\* Specification of the activation protocol: one registered node
\* =====================================================================

\* The state after a successful registration: the engine holds the boxed
\* filter and the mode `F::FILTER_MODE.into()`, the caller one NodeRef.
Init ==
    /\ filterMode \in FilterModes
    /\ LET c == NewNode(<<102>>, USize(0, 0), [kind |-> "ok", msg |-> <<>>],
                        filterMode, CallerInst)
       IN /\ reg = CallRecord("new_video", <<102>>, USize(0, 0), c)
          /\ engineMode = c.mode
          /\ inst = c.inst
          /\ nodeRc = 1
          /\ handles = FromPtr(NoHandles)
    /\ builder = NewBuilder
    /\ core = NoCore
    /\ filterKind \in {"General", "AlwaysErr"}
    /\ errText \in ErrTexts
    /\ filterKind = "General" => errText = <<98, 111, 111, 109>>
    /\ req = [n \in Frames |-> NoReq]
    /\ thr = [t \in Threads |-> Idle]
    /\ last = [n \in Frames |-> NoAct]
    /\ frame = [n \in Frames |-> NoFrame]
    /\ result = [n \in Frames |-> NoResult]
    /\ crashed = FALSE

\* NodeRef::get_frame(n), first half: api().getFrame queues the request and
\* blocks the caller.
NodeGetFrameCall(n) ==
    /\ ~crashed
    /\ nodeRc > 0
    /\ req[n].st = "None"
    /\ req' = [req EXCEPT ![n].st = "Initial"]
    /\ UNCHANGED <<filterMode, engineMode, filterKind, errText, thr, last,
                   frame, result, crashed, nodeRc, inst, reg>>
    /\ UNCHANGED <<handles, builder, core>>

\* An engine worker calls F::filter_get_frame for a queued request. Workers
\* are interchangeable: the first idle one takes it.
EngineDispatch(t, n) ==
    /\ ~crashed
    /\ inst.owner = "engine"
    /\ thr[t].pc = "idle"
    /\ \A u \in Threads : thr[u].pc = "idle" => t <= u
    /\ req[n].st \in {"Initial", "Ready", "UpErr"}
    /\ ModeAllows(engineMode, ReasonOf(req[n].st), n)
    /\ thr' = [thr EXCEPT ![t] = [pc |-> "inside", n |-> n,
                                  reason |-> ReasonOf(req[n].st), nreq |-> 0]]
    /\ req' = [req EXCEPT ![n].st = "Running", ![n].started = TRUE]
    /\ UNCHANGED <<filterMode, engineMode, filterKind, errText, last, frame,
                   result, crashed, nodeRc, inst, reg>>
    /\ UNCHANGED <<handles, builder, core>>

\* Inside get_frame with reason Initial, the filter asks for an upstream
\* frame through its FrameContext.
CtxRequestFrame(t) ==
    /\ ~crashed
    /\ thr[t].pc = "inside"
    /\ thr[t].reason = "Initial"
    /\ req[thr[t].n].issued < MaxUpstream
    /\ req' = [req EXCEPT ![thr[t].n].issued = @ + 1,
                          ![thr[t].n].pending = @ + 1]
    /\ thr' = [thr EXCEPT ![t].nreq = @ + 1]
    /\ UNCHANGED <<filterMode, engineMode, filterKind, errText, last, frame,
                   result, crashed, nodeRc, inst, reg>>
    /\ UNCHANGED <<handles, builder, core>>

\* The user's get_frame ends (returns or panics), filter_get_frame handles
\* the outcome and returns to the engine, which files the result.
FilterGetFrameReturn(t) ==
    /\ ~crashed
    /\ thr[t].pc = "inside"
    /\ LET n == thr[t].n
           reason == thr[t].reason
       IN \E r \in FilterResults(filterKind, reason, thr[t].nreq) :
          \E o \in FilterGetFrame(r, n, req[n].err) :
            /\ crashed' = o.crash
            /\ last' = [last EXCEPT ![n] =
                          [reason |-> reason, tag |-> r.tag, kind |-> r.kind,
                           msg |-> r.msg, ret |-> o.ret, crash |-> o.crash]]
            /\ frame' = IF r.tag = "Some"
                        THEN [frame EXCEPT ![n] = ManuallyDropFrame(NewFrame)]
                        ELSE frame
            /\ req' = [req EXCEPT ![n] =
                          IF o.crash THEN [@ EXCEPT !.err = o.err]
                          ELSE EngineOnReturn(@, reason, o.ret, o.err)]
            /\ thr' = [thr EXCEPT ![t] = Idle]
    /\ UNCHANGED <<filterMode, engineMode, filterKind, errText, result,
                   nodeRc, inst, reg>>
    /\ UNCHANGED <<handles, builder, core>>

\* The engine resolves (or fails) one upstream frame of a suspended request;
\* with the last one the request is queued again, with AllFramesReady or,
\* after a failure, with the upstream-error reason.
EngineResolveUpstream(n, ok) ==
    /\ ~crashed
    /\ req[n].st = "Waiting"
    /\ req[n].pending > 0
    /\ LET failed == req[n].upFailed \/ ~ok IN
       req' = [req EXCEPT ![n].pending = @ - 1,
                          ![n].upFailed = failed,
                          ![n].st = IF req[n].pending > 1 THEN "Waiting"
                                    ELSE IF failed THEN "UpErr" ELSE "Ready"]
    /\ UNCHANGED <<filterMode, engineMode, filterKind, errText, thr, last,
                   frame, result, crashed, nodeRc, inst, reg>>
    /\ UNCHANGED <<handles, builder, core>>

\* NodeRef::get_frame(n), second half: api().getFrame returns the frame or
\* null with the message in the buffer.
NodeGetFrameReturn(n) ==
    /\ ~crashed
    /\ req[n].st \in {"Done", "Error"}
    /\ result[n] = NoResult
    /\ result' = [result EXCEPT ![n] =
           NodeGetFrameResult(req[n].ptr, EngineGetFrameBuf(req[n], BufSize))]
    /\ UNCHANGED <<filterMode, engineMode, filterKind, errText, req, thr,
                   last, frame, crashed, nodeRc, inst, reg>>
    /\ UNCHANGED <<handles, builder, core>>

\* The owner downstream of the callback (the engine, then the caller of
\* get_frame holding Ok(frame)) gives up its one reference.
EngineReleaseFrame(n) ==
    /\ ~crashed
    /\ result[n].tag = "Ok"
    /\ frame[n].engineRel = 0
    /\ frame' = [frame EXCEPT ![n].rc = @ - 1, ![n].engineRel = @ + 1]
    /\ UNCHANGED <<filterMode, engineMode, filterKind, errText, req, thr,
                   last, result, crashed, nodeRc, inst, reg>>
    /\ UNCHANGED <<handles, builder, core>>

\* Clone for NodeRef, called on the live handle h.
NodeRefClone(h) ==
    /\ ~crashed
    /\ h \in handles.live
    /\ handles.made <= MaxClones
    /\ LET c == CloneNodeRef(nodeRc, handles)
       IN /\ nodeRc' = c.rc
          /\ handles' = c.handles
    /\ UNCHANGED <<filterMode, engineMode, filterKind, errText, req, thr,
                   last, frame, result, crashed, inst, reg>>
    /\ UNCHANGED <<builder, core>>

\* Drop for NodeRef, of the live handle h: api().freeNode. get_frame borrows
\* the handle, so every call has returned. At zero the engine tears the
\* node down and calls F::filter_free.
NodeRefDrop(h) ==
    /\ ~crashed
    /\ h \in handles.live
    /\ \A n \in Frames : req[n].st # "None" => result[n] # NoResult
    /\ handles' = [handles EXCEPT !.live = @ \ {h}]
    /\ nodeRc' = nodeRc - 1
    /\ inst' = IF nodeRc = 1 THEN FilterFree(inst) ELSE inst
    /\ UNCHANGED <<filterMode, engineMode, filterKind, errText, req, thr,
                   last, frame, result, crashed, reg>>
    /\ UNCHANGED <<builder, core>>

Next ==
    \/ \E n \in Frames : NodeGetFrameCall(n)
    \/ \E t \in Threads, n \in Frames : EngineDispatch(t, n)
    \/ \E t \in Threads : CtxRequestFrame(t)
    \/ \E t \in Threads : FilterGetFrameReturn(t)
    \/ \E n \in Frames, ok \in BOOLEAN : EngineResolveUpstream(n, ok)
    \/ \E n \in Frames : NodeGetFrameReturn(n)
    \/ \E n \in Frames : EngineReleaseFrame(n)
    \/ \E h \in HandleIds : NodeRefDrop(h)

Spec == Init /\ [][Next]_vars

\* =====================================================================
\* Specification of the registration calls: one Filter instance
\* =====================================================================

InitReg ==
    /\ filterMode \in FilterModes
    /\ engineMode = ""
    /\ filterKind = "General"
    /\ errText = <<98, 111, 111, 109>>
    /\ req = [n \in Frames |-> NoReq]
    /\ thr = [t \in Threads |-> Idle]
    /\ last = [n \in Frames |-> NoAct]
    /\ frame = [n \in Frames |-> NoFrame]
    /\ result = [n \in Frames |-> NoResult]
    /\ crashed = FALSE
    /\ nodeRc = 0
    /\ inst = CallerInst
    /\ reg = RegInit
    /\ handles = NoHandles
    /\ builder = NewBuilder
    /\ core = NoCore

\* The state a finished registration call c leaves behind.
Registers(path, name, len, c) ==
    /\ reg.path = "none"
    /\ reg' = CallRecord(path, name, len, c)
    /\ inst' = c.inst
    /\ nodeRc' = IF c.node THEN 1 ELSE 0
    /\ handles' = IF c.node THEN FromPtr(handles) ELSE handles
    /\ engineMode' = c.mode
    /\ UNCHANGED <<filterMode, filterKind, errText, req, thr, last, frame,
                   result, crashed>>
    /\ UNCHANGED <<builder, core>>

CoreCreateVideoFilter(name, len, eng) ==
    Registers("create_video_filter", name, len,
              CreateVideoFilter(name, len, eng, filterMode, inst))

CoreCreateAudioFilter(name, len, eng) ==
    Registers("create_audio_filter", name, len,
              CreateAudioFilter(name, len, eng, filterMode, inst))

NodeRefNewVideo(name, len, eng) ==
    Registers("new_video", name, len,
              NewNode(name, len, eng, filterMode, inst))

NodeRefNewAudio(name, len, eng) ==
    Registers("new_audio", name, len,
              NewNode(name, len, eng, filterMode, inst))

\* After a registration the one reference to the node (the NodeRef of the v2
\* calls, the entry of the out map of the v1 calls) is released: NodeRefDrop.
NextReg ==
    \/ \E name \in Names, len \in DepsLens, eng \in EngineAnswers :
           CoreCreateVideoFilter(name, len, eng)
    \/ \E name \in Names, len \in DepsLens, eng \in EngineAnswers :
           CoreCreateAudioFilter(name, len, eng)
    \/ \E name \in Names, len \in DepsLens, eng \in EngineAnswers :
           NodeRefNewVideo(name, len, eng)
    \/ \E name \in Names, len \in DepsLens, eng \in EngineAnswers :
           NodeRefNewAudio(name, len, eng)
    \/ \E h \in HandleIds : NodeRefDrop(h)

SpecReg == InitReg /\ [][NextReg]_vars

\* =====================================================================
\* Specification of the NodeRef handles of one registered node
\* =====================================================================

NextNode ==
    \/ \E h \in HandleIds : NodeRefClone(h)
    \/ \E h \in HandleIds : NodeRefDrop(h)

SpecNode == Init /\ [][NextNode]_vars

\* =====================================================================
\* Specification of CoreBuilder: calls on one builder, then build()
\* =====================================================================

\* One call on the builder, kept in its log.
BuilderCalls(m, arg, b) ==
    /\ ~core.built
    /\ Len(builder.log) < MaxCalls
    /\ builder' = [b EXCEPT !.log = Append(builder.log,
                                           [m |-> m, arg |-> arg])]
    /\ UNCHANGED <<filterMode, engineMode, filterKind, errText, req, thr,
                   last, frame, result, crashed, nodeRc, inst, reg, handles,
                   core>>

BuilderEnableGraphInspection ==
    BuilderCalls("enable_graph_inspection", 0, EnableGraphInspection(builder))

BuilderDisableAutoLoading ==
    BuilderCalls("disable_auto_loading", 0, DisableAutoLoading(builder))

BuilderDisableLibraryUnloading ==
    BuilderCalls("disable_library_unloading", 0,
                 DisableLibraryUnloading(builder))

BuilderMaxCacheSize(size) ==
    BuilderCalls("max_cache_size", size, MaxCacheSize(builder, size))

BuilderThreadCount(count) ==
    BuilderCalls("thread_count", count, ThreadCount(builder, count))

BuilderApi == BuilderCalls("api", 0, SetApi(builder))

\* CoreBuilder::build
BuilderBuild ==
    /\ ~core.built
    /\ core' = Build(builder)
    /\ UNCHANGED <<filterMode, engineMode, filterKind, errText, req, thr,
                   last, frame, result, crashed, nodeRc, inst, reg, handles,
                   builder>>

NextBuilder ==
    \/ BuilderEnableGraphInspection
    \/ BuilderDisableAutoLoading
    \/ BuilderDisableLibraryUnloading
    \/ \E size \in CacheSizes : BuilderMaxCacheSize(size)
    \/ \E count \in ThreadCounts : BuilderThreadCount(count)
    \/ BuilderApi
    \/ BuilderBuild

SpecBuilder == InitReg /\ [][NextBuilder]_vars

\* =====================================================================
\* Properties
\* =====================================================================

Inside == { t \in Threads : thr[t].pc = "inside" }
InsideWith(reason) == { t \in Inside : thr[t].reason = reason }
Called == reg.path # "none"
NulInName == 0 \in Range(reg.name)
DepsOverflow == reg.depsLen.hi > 0

\* C1: every activation in which the user's get_frame panicked, whatever the
\* payload, stayed inside defined behaviour (the panic was caught and did not
\* leave the callback), recorded the panic's message as the filter error of
\* its FrameContext, and returned a null frame pointer.
C1_PanicContained ==
    \A n \in Frames :
        last[n].tag = "Panic" =>
            /\ ~last[n].crash
            /\ last[n].ret = NullPtr
            /\ req[n].err = [set |-> TRUE, msg |-> last[n].msg]

\* C2: a request whose AllFramesReady activation answered Ok(None) has a
\* filter error recorded on its FrameContext and has ended in Error.
C2_ReadyNoneIsError ==
    \A n \in Frames :
        (last[n].reason = "AllFramesReady" /\ last[n].tag = "None") =>
            req[n].err.set /\ req[n].st = "Error"

\* C3: when get_frame answered Ok(Some(frame)) the callback returned that
\* frame's pointer and the layer released nothing: the frame stays alive
\* until the engine's side gives up the one reference, which happens at most
\* once and leaves the count at zero, never below.
C3_FrameOwnershipTransferred ==
    \A n \in Frames :
        /\ frame[n].layerRel = 0
        /\ frame[n].engineRel <= 1
        /\ frame[n].rc >= 0
        /\ last[n].tag = "Some" =>
               /\ last[n].ret = FramePtr(n)
               /\ req[n].ptr = FramePtr(n)
               /\ frame[n].rc + frame[n].engineRel = 1

\* A frame went through the callback and the engine's side has released it.
C3_Witness ==
    \E n \in Frames :
        last[n].tag = "Some" /\ frame[n].engineRel = 1 /\ frame[n].rc = 0

C5_UnorderedOneThread ==
    filterMode = "Unordered" => Cardinality(Inside) <= 1

\* Mode Unordered, frame 0 is inside with AllFramesReady while frame 1 has
\* had its Initial activation and waits for its upstream frames.
C5_Witness ==
    /\ filterMode = "Unordered"
    /\ \E t \in Inside : thr[t].n = 0 /\ thr[t].reason = "AllFramesReady"
    /\ req[1].started /\ req[1].st = "Waiting"

\* C6: for a filter of mode ParallelRequests at most one thread is inside
\* get_frame with reason AllFramesReady.
C6_RequestsOneReady ==
    filterMode = "ParallelRequests" =>
        Cardinality(InsideWith("AllFramesReady")) <= 1

\* Mode ParallelRequests: two threads are inside get_frame with reason
\* Initial at the same time.
C6_Witness ==
    /\ filterMode = "ParallelRequests"
    /\ Cardinality(InsideWith("Initial")) >= 2

\* C7: an AllFramesReady activation runs only when the request asked for
\* upstream frames and all of them are resolved; a request is Done only after
\* its AllFramesReady activation, or after an Initial activation that asked
\* for nothing; and once its AllFramesReady activation is over the request is
\* Done or Error.
C7_ActivationLifecycle ==
    /\ \A t \in InsideWith("AllFramesReady") :
           /\ req[thr[t].n].issued > 0
           /\ req[thr[t].n].pending = 0
           /\ ~req[thr[t].n].upFailed
    /\ \A n \in Frames :
           /\ req[n].st = "Done" =>
                  \/ last[n].reason = "AllFramesReady"
                  \/ last[n].reason = "Initial" /\ req[n].issued = 0
           /\ (last[n].reason = "AllFramesReady" /\ req[n].st # "Running") =>
                  req[n].st \in {"Done", "Error"}

\* C8: the Filter instance handed to a registration call is never destroyed
\* twice; once the call has failed (invalid name, dependency overflow,
\* engine-reported failure) it has been destroyed exactly once; a registered
\* node's instance is destroyed by filter_free, which runs the free hook
\* once, with no thread inside get_frame.
C8_FilterDestroyedOnce ==
    /\ inst.drops <= 1 /\ inst.freeHook <= 1
    /\ (Called /\ reg.ret.tag \in {"Err", "None", "Panic"}) => inst.drops = 1
    /\ (Called /\ reg.ret.tag \in {"Ok", "Some"} /\ nodeRc = 0) =>
           inst.drops = 1 /\ inst.freeHook = 1
    /\ inst.owner = "gone" => Inside = {}

\* C9: a registration call whose name holds a NUL never reaches the engine
\* and registers no node; create_video_filter fails with
\* FilterError::InvalidName, create_audio_filter with its "Invalid name"
\* error, new_video and new_audio return None.
C9_NulNameRejected ==
    (Called /\ NulInName) =>
        /\ reg.calls = 0 /\ nodeRc = 0 /\ inst.owner # "engine"
        /\ reg.path = "create_video_filter" =>
               reg.ret = ErrFilterError("InvalidName", <<>>)
        /\ reg.path = "create_audio_filter" =>
               reg.ret = ErrCString(InvalidNameText)
        /\ reg.path \in {"new_video", "new_audio"} => reg.ret = NoneNode

\* new_video was called with a name holding a NUL and returned None.
C9_Witness ==
    /\ reg.path = "new_video" /\ NulInName /\ reg.ret = NoneNode
    /\ reg.calls = 0

CarriesText(msg, bytes) ==
    /\ Len(msg) = Len(bytes)
    /\ \A k \in 1..Len(bytes) :
           IF bytes[k] < 128 THEN msg[k] = bytes[k] ELSE msg[k] = 65533

\* C11: a create_video_filter call with a valid name and dependency count
\* reaches the engine once and returns Ok(()) exactly when the out map holds
\* no error entry after the engine call; otherwise it returns
\* FilterError::Internal carrying the text of that entry. An error written
\* by the engine is never reported as success, by create_audio_filter
\* neither.
C11_OutMapErrorReported ==
    /\ (reg.path = "create_video_filter" /\ ~NulInName /\ ~DepsOverflow) =>
           /\ reg.calls = 1
           /\ (reg.ret = OkUnit) <=> ~reg.out.set
           /\ reg.out.set =>
                  /\ reg.ret.tag = "Err" /\ reg.ret.type = "FilterError"
                  /\ reg.ret.variant = "Internal"
                  /\ CarriesText(reg.ret.msg, reg.out.msg)
    /\ (reg.path \in {"create_video_filter", "create_audio_filter"}
          /\ reg.out.set) => reg.ret.tag = "Err"

\* create_video_filter was called with a valid name and one dependency, the
\* engine wrote the error "x" into the out map, and the call returned
\* Internal("x").
C11_Witness ==
    /\ reg.path = "create_video_filter" /\ ~NulInName
    /\ reg.depsLen = USize(0, 1) /\ reg.calls = 1
    /\ reg.out = [set |-> TRUE, msg |-> <<120>>]
    /\ reg.ret = ErrFilterError("Internal", <<120>>)

\* C12: whatever clones and drops of NodeRef handles were made, the engine's
\* reference count of the node is the number of live handles; the engine
\* keeps the filter while a handle lives, and the node is torn down (the
\* filter's free callback run, the filter dropped) exactly once, with the
\* drop of the last handle.
C12_RefCountMatchesHandles ==
    /\ nodeRc = Cardinality(handles.live)
    /\ handles.live # {} => inst.owner = "engine" /\ inst.freeHook = 0
    /\ handles.live = {} => inst.owner = "gone" /\ inst.freeHook = 1
    /\ inst.drops = inst.freeHook

\* The handle was cloned MaxClones times, all the handles were dropped, and
\* the node was torn down once.
C12_Witness ==
    /\ handles.made = MaxClones + 1 /\ handles.live = {}
    /\ nodeRc = 0 /\ inst.freeHook = 1 /\ inst.drops = 1

\* Whether method m was called on the builder, and the argument of its last
\* call.
Selected(m) == \E k \in DOMAIN builder.log : builder.log[k].m = m
LastArg(m) ==
    LET ks == {k \in DOMAIN builder.log : builder.log[k].m = m}
    IN  builder.log[CHOOSE k \in ks : \A j \in ks : j <= k].arg
\* The selected creation flags, which are distinct bits, or-ed.
SelectedFlags ==
    (IF Selected("enable_graph_inspection")
     THEN ccfEnableGraphInspection ELSE 0)
    + (IF Selected("disable_auto_loading") THEN ccfDisableAutoLoading ELSE 0)
    + (IF Selected("disable_library_unloading")
       THEN ccfDisableLibraryUnloading ELSE 0)

\* C13: after any calls on a CoreBuilder and build(), the core was created
\* with the bitwise OR of the selected creation flags; if max_cache_size was
\* called the core's info reports the last size as maxFramebufferSize, if
\* thread_count was called it reports the last count as numThreads; an
\* option that was never set caused no set call on the engine.
C13_BuilderBuild ==
    core.built =>
        /\ core.flags = SelectedFlags
        /\ Selected("max_cache_size") =>
               GetInfo(core).maxFramebufferSize
                   = Some(LastArg("max_cache_size"))
        /\ Selected("thread_count") =>
               GetInfo(core).numThreads = Some(LastArg("thread_count"))
        /\ ~Selected("max_cache_size") => core.setMaxCacheSize = 0
        /\ ~Selected("thread_count") => core.setThreadCount = 0

\* max_cache_size(2048), max_cache_size(1024) and disable_auto_loading were
\* called and thread_count never: the built core has the one flag, reports
\* 1024, and setThreadCount was not called.
C13_Witness ==
    /\ core.built
    /\ builder.log = << [m |-> "max_cache_size", arg |-> 2048],
                        [m |-> "max_cache_size", arg |-> 1024],
                        [m |-> "disable_auto_loading", arg |-> 0] >>
    /\ core.flags = ccfDisableAutoLoading
    /\ GetInfo(core).maxFramebufferSize = Some(1024)
    /\ core.setMaxCacheSize = 1 /\ core.setThreadCount = 0

====
